---- MODULE Spec2Model ----
(***************************************************************************)
(* The reactor of the RPC messenger (src/src/rpc/reactor.cc): the Reactor  *)
(* facade used by foreign threads (ScheduleReactorTask, Shutdown, ...) and *)
(* the ReactorThread event loop (AsyncHandler, TimerHandler, connection    *)
(* tables).  Every critical section of the Reactor lock is split at the    *)
(* lock acquisition; code outside the lock is one step per statement that  *)
(* touches shared state.                                                   *)
(***************************************************************************)
EXTENDS Integers, Sequences, FiniteSets, TLC

\* ---------------------------------------------------------------- bounds
NumThreads == 2
MaxTasks == 3
MaxShutdownCalls == 2
MaxConns == 2
NumConnIds == 2
MaxTime == 2
MaxTimerTicks == 1
MaxFairTasks == 2
MaxPeriodicTicks == 2
MaxScanConns == 3

\* ------------------------------------------------------ program constants
\* The keepalive of the builder, in clock units.
Keepalive == 1

\* The loop thread started by ReactorThread::Init; foreign threads are 1..NumThreads.
LoopThread == 0

Threads == 1..NumThreads
ConnIds == 1..NumConnIds

\* Status values.  ShutdownError() of the anonymous namespace.
ShutdownError == "ServiceUnavailable: reactor is shutting down"
StatusOK == "OK"
MessengerShuttingDown == "ServiceUnavailable: Client RPC Messenger shutting down"
NegotiationThreadError == "Unable to start connection negotiation thread"
IllegalStateServiceName == "IllegalState: Failed to set connection service name!"
TimedOutError == "NetworkError: connection timed out"
SocketError == "NetworkError: socket"
ConnectError == "NetworkError: connect"
NegotiationFailed == "NetworkError: negotiation failed"
NonBlockingError == "NetworkError: set non-blocking"
NoStatus == "none"

\* The statuses made by Status::ServiceUnavailable.
ServiceUnavailable == {ShutdownError, MessengerShuttingDown}

VARIABLES
  closing_,          \* Reactor::closing_
  lock_,             \* Reactor::lock_: the set of its holders ({} when free)
  pending_tasks_,    \* Reactor::pending_tasks_: sequence of task ids
  async_sent,        \* ReactorThread::async_: a send not yet delivered
  loop_pc,           \* where the loop thread is
  tasks,             \* the local list of AsyncHandler
  pc,                \* where each foreign thread is
  cur,               \* the task each foreign thread holds (0: none)
  task,              \* every ReactorTask ever constructed, by id
  run_log,           \* ids in the order Run was invoked
  closer,            \* the set of threads whose Shutdown set closing_
  shutdown_returned, \* that Shutdown call has returned
  sd_calls,          \* Shutdown calls begun
  drained_at_close,  \* the tasks in AsyncHandler's local list when closing_ was set
  conns,             \* every Connection ever constructed, by index
  client_conns_,     \* ReactorThread::client_conns_: set of <<ConnectionId, conn>>
  server_conns_,     \* ReactorThread::server_conns_: sequence of conn
  calls,             \* every OutboundCall, by index
  check_failed,      \* a CHECK of the loop thread failed (the process aborts)
  now,               \* the coarse monotonic clock
  cur_time_,         \* ReactorThread::cur_time_
  ticks,             \* timer firings so far
  scan_idle          \* the Connections whose Idle() answered true in the last scan

vars == <<closing_, lock_, pending_tasks_, async_sent, loop_pc, tasks, pc, cur,
          task, run_log, closer, shutdown_returned, sd_calls, drained_at_close, conns,
          client_conns_, server_conns_, calls, check_failed, now, cur_time_, ticks,
          scan_idle>>

reactorVars == <<closing_, lock_, pending_tasks_, async_sent>>
loopVars == <<loop_pc, tasks>>
threadVars == <<pc, cur>>
ghostVars == <<closer, shutdown_returned, sd_calls, drained_at_close>>
connVars == <<conns, client_conns_, server_conns_, calls, check_failed>>
timeVars == <<now, cur_time_, ticks, scan_idle>>

\* ---------------------------------------------------------------- helpers
NewTask(kind, th, conn, call, status) ==
  [kind |-> kind, thread |-> th, conn |-> conn, call |-> call, status |-> status,
   runs |-> 0, aborts |-> 0, abort_status |-> NoStatus, abort_thread |-> {},
   latch |-> IF kind = "GetMetrics" THEN 1 ELSE 0, metrics |-> <<>>,
   accepted |-> FALSE, refused |-> FALSE, run_after_return |-> FALSE,
   service_name_empty |-> FALSE, set_nonblocking |-> NoStatus]

NewConnection(direction, conn_id, t) ==
  [direction |-> direction, conn_id |-> conn_id, fd_open |-> TRUE,
   shutdown_status |-> NoStatus, negotiating |-> FALSE,
   negotiation_complete |-> FALSE, epoll_registered |-> FALSE,
   registered |-> FALSE, last_activity |-> t, calls |-> {}]

\* ------------------------------------------------- loop-confined state
\* The state only the loop thread touches, as one record the handlers transform.
LoopState ==
  [conns |-> conns, client_conns |-> client_conns_, server_conns |-> server_conns_,
   calls |-> calls, check_failed |-> check_failed]

SetLoopState(L) ==
  /\ conns' = L.conns
  /\ client_conns_' = L.client_conns
  /\ server_conns_' = L.server_conns
  /\ calls' = L.calls
  /\ check_failed' = L.check_failed

\* OutboundCall::SetFailed: a call is failed once.
SetFailed(cs, k, status) ==
  IF cs[k].status = NoStatus THEN [cs EXCEPT ![k].status = status] ELSE cs

RECURSIVE SetFailedAll(_, _, _)
SetFailedAll(cs, ks, status) ==
  IF ks = {} THEN cs
  ELSE LET k == CHOOSE x \in ks : TRUE
       IN SetFailedAll(SetFailed(cs, k, status), ks \ {k}, status)

\* Connection::Shutdown(status): every call in flight fails with the status and
\* the fd is closed.
ConnShutdown(L, c, status) ==
  [L EXCEPT
     !.conns = [@ EXCEPT ![c].fd_open = FALSE,
                         ![c].shutdown_status = status,
                         ![c].calls = {}],
     !.calls = SetFailedAll(@, L.conns[c].calls, status)]

\* The last reference to a Connection that was never registered goes away:
\* its destructor closes the fd.
ConnDrop(cns, c) == [cns EXCEPT ![c].fd_open = FALSE]

\* conn_list_t erase of the first element that is this Connection.
RECURSIVE EraseFirst(_, _)
EraseFirst(list, c) ==
  IF list = <<>> THEN <<>>
  ELSE IF Head(list) = c THEN Tail(list)
  ELSE <<Head(list)>> \o EraseFirst(Tail(list), c)

\* conn_map_t::find
Find(cc, conn_id) == {p \in cc : p[1] = conn_id}

\* conn_map_t::insert: a map keeps the entry it already has for the key.
MapInsert(cc, conn_id, c) ==
  IF Find(cc, conn_id) # {} THEN cc ELSE cc \cup {<<conn_id, c>>}

DestroyConnection(L, c, conn_status) ==
  LET L1 == ConnShutdown(L, c, conn_status)
  IN IF L.conns[c].direction = "CLIENT"
     THEN IF Find(L1.client_conns, L.conns[c].conn_id) = {}
          THEN [L1 EXCEPT !.check_failed = TRUE]
          ELSE [L1 EXCEPT !.client_conns =
                   @ \ Find(L1.client_conns, L.conns[c].conn_id)]
     ELSE [L1 EXCEPT !.server_conns = EraseFirst(@, c)]

\* The results SubmitFutureTask of the negotiation executor can give.
SubmitIllegalState == "IllegalState: executor is closing"
SubmitOtherError == "RuntimeError: cannot submit"
SubmitResults == {StatusOK, SubmitIllegalState, SubmitOtherError}

\* StartConnectionNegotiation with the executor answering s.
StartConnectionNegotiation(L, c, s) ==
  IF s = StatusOK THEN [L EXCEPT !.conns[c].negotiating = TRUE] ELSE L

RegisterConnection(L, c, s) ==
  LET L0 == [L EXCEPT !.conns[c].registered = TRUE]
      L1 == StartConnectionNegotiation(L0, c, s)
      L2 == IF s # StatusOK THEN DestroyConnection(L1, c, s) ELSE L1
  IN [L2 EXCEPT !.server_conns = Append(@, c)]

\* Connection::QueueOutboundCall: a Connection already shut down fails the call.
ConnQueueOutboundCall(L, c, k) ==
  IF L.conns[c].fd_open
  THEN [L EXCEPT !.conns[c].calls = @ \cup {k}, !.calls[k].conn = c]
  ELSE [L EXCEPT !.calls = SetFailed(@, k, L.conns[c].shutdown_status),
                 !.calls[k].conn = c]

\* What creating the socket and starting the connect can give.
ConnectResults == {StatusOK, SocketError, ConnectError}

\* FindOrStartConnection with the insert into client_conns_ made before the
\* negotiation is submitted, so that a refused submit leaves the entry behind.
FindOrStartConnectionInsertEarly(L, conn_id, sock, s, t) ==
  IF Find(L.client_conns, conn_id) # {}
  THEN [L |-> L, status |-> StatusOK,
        conn |-> (CHOOSE p \in Find(L.client_conns, conn_id) : TRUE)[2]]
  ELSE IF sock # StatusOK
  THEN [L |-> L, status |-> sock, conn |-> 0]
  ELSE LET c == Len(L.conns) + 1
           L1 == [L EXCEPT !.conns = Append(@, NewConnection("CLIENT", conn_id, t)),
                           !.client_conns = MapInsert(@, conn_id, c)]
           L2 == StartConnectionNegotiation(L1, c, s)
       IN IF s = SubmitIllegalState
          THEN [L |-> [L2 EXCEPT !.conns = ConnDrop(@, c)],
                status |-> MessengerShuttingDown, conn |-> 0]
          ELSE IF s # StatusOK
          THEN [L |-> [L2 EXCEPT !.conns = ConnDrop(@, c)],
                status |-> NegotiationThreadError, conn |-> 0]
          ELSE [L |-> [L2 EXCEPT !.conns[c].registered = TRUE],
                status |-> StatusOK, conn |-> c]

\* FindOrStartConnection without the insert into client_conns_.
FindOrStartConnectionNoInsert(L, conn_id, sock, s, t) ==
  IF Find(L.client_conns, conn_id) # {}
  THEN [L |-> L, status |-> StatusOK,
        conn |-> (CHOOSE p \in Find(L.client_conns, conn_id) : TRUE)[2]]
  ELSE IF sock # StatusOK
  THEN [L |-> L, status |-> sock, conn |-> 0]
  ELSE LET c == Len(L.conns) + 1
           L1 == [L EXCEPT !.conns = Append(@, NewConnection("CLIENT", conn_id, t))]
           L2 == StartConnectionNegotiation(L1, c, s)
       IN IF s = SubmitIllegalState
          THEN [L |-> [L2 EXCEPT !.conns = ConnDrop(@, c)],
                status |-> MessengerShuttingDown, conn |-> 0]
          ELSE IF s # StatusOK
          THEN [L |-> [L2 EXCEPT !.conns = ConnDrop(@, c)],
                status |-> NegotiationThreadError, conn |-> 0]
          ELSE [L |-> [L2 EXCEPT !.conns[c].registered = TRUE],
                status |-> StatusOK, conn |-> c]

\* FindOrStartConnection forwarding the status of the executor as it is.
FindOrStartConnectionNoRemap(L, conn_id, sock, s, t) ==
  IF Find(L.client_conns, conn_id) # {}
  THEN [L |-> L, status |-> StatusOK,
        conn |-> (CHOOSE p \in Find(L.client_conns, conn_id) : TRUE)[2]]
  ELSE IF sock # StatusOK
  THEN [L |-> L, status |-> sock, conn |-> 0]
  ELSE LET c == Len(L.conns) + 1
           L1 == [L EXCEPT !.conns = Append(@, NewConnection("CLIENT", conn_id, t))]
           L2 == StartConnectionNegotiation(L1, c, s)
       IN IF s # StatusOK
          THEN [L |-> [L2 EXCEPT !.conns = ConnDrop(@, c)],
                status |-> s, conn |-> 0]
          ELSE [L |-> [L2 EXCEPT !.client_conns = MapInsert(@, conn_id, c),
                                 !.conns[c].registered = TRUE],
                status |-> StatusOK, conn |-> c]

\* FindOrStartConnection without the lookup in client_conns_.
FindOrStartConnectionNoFind(L, conn_id, sock, s, t) ==
  IF sock # StatusOK
  THEN [L |-> L, status |-> sock, conn |-> 0]
  ELSE LET c == Len(L.conns) + 1
           L1 == [L EXCEPT !.conns = Append(@, NewConnection("CLIENT", conn_id, t))]
           L2 == StartConnectionNegotiation(L1, c, s)
       IN IF s = SubmitIllegalState
          THEN [L |-> [L2 EXCEPT !.conns = ConnDrop(@, c)],
                status |-> MessengerShuttingDown, conn |-> 0]
          ELSE IF s # StatusOK
          THEN [L |-> [L2 EXCEPT !.conns = ConnDrop(@, c)],
                status |-> NegotiationThreadError, conn |-> 0]
          ELSE [L |-> [L2 EXCEPT !.client_conns = MapInsert(@, conn_id, c),
                                 !.conns[c].registered = TRUE],
                status |-> StatusOK, conn |-> c]

\* FindOrStartConnection: the record [L, status, conn] it leaves.  sock is the
\* result of CreateClientSocket and StartConnect, s of the negotiation submit,
\* t the clock the new Connection reads.
FindOrStartConnection(L, conn_id, sock, s, t) ==
  IF Find(L.client_conns, conn_id) # {}
  THEN [L |-> L, status |-> StatusOK,
        conn |-> (CHOOSE p \in Find(L.client_conns, conn_id) : TRUE)[2]]
  ELSE IF sock # StatusOK
  THEN [L |-> L, status |-> sock, conn |-> 0]
  ELSE LET c == Len(L.conns) + 1
           L1 == [L EXCEPT !.conns = Append(@, NewConnection("CLIENT", conn_id, t))]
           L2 == StartConnectionNegotiation(L1, c, s)
       IN IF s = SubmitIllegalState
          THEN [L |-> [L2 EXCEPT !.conns = ConnDrop(@, c)],
                status |-> MessengerShuttingDown, conn |-> 0]
          ELSE IF s # StatusOK
          THEN [L |-> [L2 EXCEPT !.conns = ConnDrop(@, c)],
                status |-> NegotiationThreadError, conn |-> 0]
          ELSE [L |-> [L2 EXCEPT !.client_conns = MapInsert(@, conn_id, c),
                                 !.conns[c].registered = TRUE],
                status |-> StatusOK, conn |-> c]

AssignOutboundCall(L, k, sock, s, t) ==
  LET r == FindOrStartConnection(L, L.calls[k].conn_id, sock, s, t)
  IN IF r.status # StatusOK
     THEN [r.L EXCEPT !.calls = SetFailed(@, k, r.status)]
     ELSE ConnQueueOutboundCall(r.L, r.conn, k)

\* CompleteConnectionNegotiation without the test of the service name.
CompleteConnectionNegotiationNoName(L, c, status, name_empty, nb) ==
  IF status # StatusOK THEN DestroyConnection(L, c, status)
  ELSE IF nb # StatusOK THEN DestroyConnection(L, c, nb)
  ELSE [L EXCEPT !.conns[c].negotiation_complete = TRUE,
                 !.conns[c].epoll_registered = TRUE]

\* CompleteConnectionNegotiation: name_empty is service_name().empty(), nb the
\* result of SetNonBlocking(true).
CompleteConnectionNegotiation(L, c, status, name_empty, nb) ==
  IF status # StatusOK THEN DestroyConnection(L, c, status)
  ELSE IF name_empty THEN DestroyConnection(L, c, IllegalStateServiceName)
  ELSE IF nb # StatusOK THEN DestroyConnection(L, c, nb)
  ELSE [L EXCEPT !.conns[c].negotiation_complete = TRUE,
                 !.conns[c].epoll_registered = TRUE]

\* The loop over client_conns_ of ShutdownInternal.
RECURSIVE ShutdownClients(_)
ShutdownClients(L) ==
  IF L.client_conns = {} THEN L
  ELSE LET p == CHOOSE x \in L.client_conns : TRUE
       IN ShutdownClients([ConnShutdown(L, p[2], ShutdownError)
                             EXCEPT !.client_conns = @ \ {p}])

\* The BOOST_FOREACH over server_conns_ of ShutdownInternal.
RECURSIVE ShutdownServers(_, _)
ShutdownServers(L, list) ==
  IF list = <<>> THEN L
  ELSE ShutdownServers(ConnShutdown(L, Head(list), ShutdownError), Tail(list))

\* ShutdownInternal clearing server_conns_ without the BOOST_FOREACH that shuts
\* the inbound Connections down.
ShutdownInternalNoServers(L) ==
  LET L1 == ShutdownClients(L)
  IN [L1 EXCEPT !.server_conns = <<>>]

ShutdownInternal(L) ==
  LET L1 == ShutdownClients(L)
      L2 == ShutdownServers(L1, L1.server_conns)
  IN [L2 EXCEPT !.server_conns = <<>>]

\* The walk of ScanIdleConnections putting each Connection it keeps at the back
\* of what the rest of the walk left, so that the kept entries come out reversed.
RECURSIVE ScanFromReorder(_, _, _, _)
ScanFromReorder(L, rest, idle, t) ==
  IF rest = <<>> THEN [L EXCEPT !.server_conns = <<>>]
  ELSE LET c == Head(rest)
           expired == c \in idle /\ t - L.conns[c].last_activity > Keepalive
           L1 == IF expired THEN ConnShutdown(L, c, TimedOutError) ELSE L
           R == ScanFromReorder(L1, Tail(rest), idle, t)
       IN IF expired THEN R
          ELSE [R EXCEPT !.server_conns = @ \o <<c>>]

\* The walk of ScanIdleConnections with the iterator advanced once more after an
\* erase, so that the element after a timed-out Connection is not looked at.
RECURSIVE ScanFromSkip(_, _, _, _)
ScanFromSkip(L, rest, idle, t) ==
  IF rest = <<>> THEN [L EXCEPT !.server_conns = <<>>]
  ELSE LET c == Head(rest)
           expired == c \in idle /\ t - L.conns[c].last_activity > Keepalive
           L1 == IF expired THEN ConnShutdown(L, c, TimedOutError) ELSE L
       IN IF expired
          THEN IF Tail(rest) = <<>> THEN [L1 EXCEPT !.server_conns = <<>>]
               ELSE LET R == ScanFromSkip(L1, Tail(Tail(rest)), idle, t)
                    IN [R EXCEPT !.server_conns = <<Head(Tail(rest))>> \o @]
          ELSE LET R == ScanFromSkip(L1, Tail(rest), idle, t)
               IN [R EXCEPT !.server_conns = <<c>> \o @]

\* The walk of ScanIdleConnections from position i; idle is the set of
\* Connections whose Idle() answers true.
RECURSIVE ScanFrom(_, _, _, _)
ScanFrom(L, rest, idle, t) ==
  IF rest = <<>> THEN [L EXCEPT !.server_conns = <<>>]
  ELSE LET c == Head(rest)
           expired == c \in idle /\ t - L.conns[c].last_activity > Keepalive
           L1 == IF expired THEN ConnShutdown(L, c, TimedOutError) ELSE L
           R == ScanFrom(L1, Tail(rest), idle, t)
       IN IF expired THEN R
          ELSE [R EXCEPT !.server_conns = <<c>> \o @]

ScanIdleConnections(L, idle, t) == ScanFrom(L, L.server_conns, idle, t)

\* GetMetricsInternal
GetMetricsInternal(L) == <<Cardinality(L.client_conns), Len(L.server_conns)>>

\* ------------------------------------------------------- foreign threads
\* A critical section that touches closing_ alone is one step, taken when the
\* lock is free; one that goes on to pending_tasks_ keeps the lock across steps.
Acquire(who) == lock_ = {} /\ lock_' = {who}
Release(who) == lock_' = lock_ \ {who}

\* ReactorTask::Abort with GetMetricsTask::Abort not counting the latch down.
AbortTaskNoCountDown(t, status, th) ==
  /\ task' = [task EXCEPT ![t].aborts = @ + 1,
                          ![t].abort_status = status,
                          ![t].abort_thread = {th}]
  /\ conns' = IF task[t].kind = "RegisterConnection"
              THEN ConnDrop(conns, task[t].conn) ELSE conns
  /\ calls' = IF task[t].kind = "AssignOutboundCall"
              THEN SetFailed(calls, task[t].call, status) ELSE calls
  /\ UNCHANGED <<client_conns_, server_conns_, check_failed>>

\* ReactorTask::Abort of each task kind, invoked by thread th.
AbortTask(t, status, th) ==
  /\ task' = [task EXCEPT ![t].aborts = @ + 1,
                          ![t].abort_status = status,
                          ![t].abort_thread = {th},
                          ![t].latch = IF @ > 0 THEN @ - 1 ELSE @]
  /\ conns' = IF task[t].kind = "RegisterConnection"
              THEN ConnDrop(conns, task[t].conn) ELSE conns
  /\ calls' = IF task[t].kind = "AssignOutboundCall"
              THEN SetFailed(calls, task[t].call, status) ELSE calls
  /\ UNCHANGED <<client_conns_, server_conns_, check_failed>>

\* ScheduleReactorTask with the lock given up after the test of closing_, before
\* the push_back.
ScheduleReactorTaskUnlockBeforePush(th, new_task) ==
  /\ lock_ = {}
  /\ task' = Append(task, [new_task EXCEPT !.refused = closing_])
  /\ pc' = [pc EXCEPT ![th] = IF closing_ THEN "sched_abort" ELSE "sched_push"]
  /\ cur' = [cur EXCEPT ![th] = Len(task) + 1]
  /\ UNCHANGED <<closing_, lock_, pending_tasks_, async_sent>>

\* ScheduleReactorTask going to Abort without lock_guard.unlock().
ScheduleReactorTaskAbortLocked(th, new_task) ==
  /\ lock_ = {}
  /\ task' = Append(task, [new_task EXCEPT !.refused = closing_])
  /\ lock_' = {th}
  /\ pc' = [pc EXCEPT ![th] = IF closing_ THEN "sched_abort" ELSE "sched_push"]
  /\ cur' = [cur EXCEPT ![th] = Len(task) + 1]
  /\ UNCHANGED <<closing_, pending_tasks_, async_sent>>

\* ScheduleReactorTask without the test of closing_: the task is always queued.
ScheduleReactorTaskNoCheck(th, new_task) ==
  /\ lock_ = {}
  /\ task' = Append(task, [new_task EXCEPT !.refused = closing_])
  /\ lock_' = {th}
  /\ pc' = [pc EXCEPT ![th] = "sched_push"]
  /\ cur' = [cur EXCEPT ![th] = Len(task) + 1]
  /\ UNCHANGED <<closing_, pending_tasks_, async_sent>>

\* ScheduleReactorTask, from taking the lock to the test of closing_:
\*   boost::unique_lock<LockType> lock_guard(lock_);
\*   if (closing_) { lock_guard.unlock(); ...
ScheduleReactorTask(th, new_task) ==
  /\ lock_ = {}
  /\ task' = Append(task, [new_task EXCEPT !.refused = closing_])
  /\ IF closing_
     THEN /\ UNCHANGED lock_
          /\ pc' = [pc EXCEPT ![th] = "sched_abort"]
     ELSE /\ lock_' = {th}
          /\ pc' = [pc EXCEPT ![th] = "sched_push"]
  /\ cur' = [cur EXCEPT ![th] = Len(task) + 1]
  /\ UNCHANGED <<closing_, pending_tasks_, async_sent>>

\* Reactor::RegisterInboundSocket
RegisterInboundSocket(th) ==
  /\ pc[th] = "idle"
  /\ conns' = Append(conns, NewConnection("SERVER", 0, now))
  /\ ScheduleReactorTask(th, NewTask("RegisterConnection", th, Len(conns) + 1, 0, NoStatus))
  /\ UNCHANGED <<loopVars, run_log, ghostVars, client_conns_,
                 server_conns_, calls, check_failed, timeVars>>

\* Reactor::QueueOutboundCall of a call to ConnectionId id
QueueOutboundCall(th, id) ==
  /\ pc[th] = "idle"
  /\ calls' = Append(calls, [conn_id |-> id, status |-> NoStatus, conn |-> 0])
  /\ ScheduleReactorTask(th, NewTask("AssignOutboundCall", th, 0, Len(calls) + 1, NoStatus))
  /\ UNCHANGED <<loopVars, run_log, ghostVars, conns, client_conns_,
                 server_conns_, check_failed, timeVars>>

\* Reactor::GetMetrics, up to task.Wait()
GetMetrics(th) ==
  /\ pc[th] = "idle"
  /\ ScheduleReactorTask(th, NewTask("GetMetrics", th, 0, 0, NoStatus))
  /\ UNCHANGED <<loopVars, run_log, ghostVars, connVars, timeVars>>

\* The negotiation executor finishes the handshake of Connection c with status
\* st, and its callback hands the outcome back to the reactor as a task.
NegotiationCallback(th, c, st) ==
  /\ pc[th] = "idle"
  /\ c \in 1..Len(conns)
  /\ conns[c].negotiating
  /\ conns' = [conns EXCEPT ![c].negotiating = FALSE]
  /\ ScheduleReactorTask(th, NewTask("NegotiationCompleted", th, c, 0, st))
  /\ UNCHANGED <<loopVars, run_log, ghostVars, client_conns_,
                 server_conns_, calls, check_failed, timeVars>>

\* Where ScheduleReactorTask returns to.
AfterSchedule(th) ==
  /\ pc' = [pc EXCEPT ![th] =
              IF task[cur[th]].kind = "GetMetrics" THEN "metrics_wait" ELSE "idle"]
  /\ cur' = [cur EXCEPT ![th] =
              IF task[cur[th]].kind = "GetMetrics" THEN @ ELSE 0]

\* ScheduleReactorTask: task->Abort(ShutdownError()); return;
SchedAbort(th) ==
  /\ pc[th] = "sched_abort"
  /\ AbortTask(cur[th], ShutdownError, th)
  /\ AfterSchedule(th)
  /\ UNCHANGED <<reactorVars, loopVars, run_log, ghostVars, timeVars>>

\* ScheduleReactorTask with push_front in place of push_back.
SchedPushFront(th) ==
  /\ pc[th] = "sched_push"
  /\ pending_tasks_' = <<cur[th]>> \o pending_tasks_
  /\ task' = [task EXCEPT ![cur[th]].accepted = TRUE]
  /\ Release(th)
  /\ pc' = [pc EXCEPT ![th] = "sched_wake"]
  /\ UNCHANGED <<closing_, async_sent, loopVars, cur, run_log,
                 ghostVars, connVars, timeVars>>

\* ScheduleReactorTask: pending_tasks_.push_back(*task); and the end of the scope.
SchedPush(th) ==
  /\ pc[th] = "sched_push"
  /\ pending_tasks_' = Append(pending_tasks_, cur[th])
  /\ task' = [task EXCEPT ![cur[th]].accepted = TRUE]
  /\ Release(th)
  /\ pc' = [pc EXCEPT ![th] = "sched_wake"]
  /\ UNCHANGED <<closing_, async_sent, loopVars, cur, run_log,
                 ghostVars, connVars, timeVars>>

\* ReactorThread::WakeThread: async_.send()
WakeThread == async_sent' = TRUE

\* ScheduleReactorTask returning without waking the loop.
SchedWakeLost(th) ==
  /\ pc[th] = "sched_wake"
  /\ AfterSchedule(th)
  /\ UNCHANGED <<reactorVars, loopVars, task, run_log, ghostVars, connVars, timeVars>>

\* ScheduleReactorTask: thread_.WakeThread();
SchedWake(th) ==
  /\ pc[th] = "sched_wake"
  /\ WakeThread
  /\ AfterSchedule(th)
  /\ UNCHANGED <<closing_, lock_, pending_tasks_, loopVars, task, run_log,
                 ghostVars, connVars, timeVars>>

\* GetMetrics: task.Wait(); return task.status();
MetricsWait(th) ==
  /\ pc[th] = "metrics_wait"
  /\ task[cur[th]].latch = 0
  /\ pc' = [pc EXCEPT ![th] = "idle"]
  /\ cur' = [cur EXCEPT ![th] = 0]
  /\ UNCHANGED <<reactorVars, loopVars, task, run_log, ghostVars, connVars, timeVars>>

\* Reactor::Shutdown testing and setting closing_ without taking the lock.
ShutdownCallNoLock(th) ==
  /\ pc[th] = "idle"
  /\ sd_calls' = sd_calls + 1
  /\ IF closing_
     THEN UNCHANGED <<closing_, closer, drained_at_close, pc>>
     ELSE /\ closing_' = TRUE
          /\ closer' = {th}
          /\ drained_at_close' = {tasks[i] : i \in 1..Len(tasks)}
          /\ pc' = [pc EXCEPT ![th] = "sd_closing"]
  /\ UNCHANGED <<lock_, pending_tasks_, async_sent, loopVars, cur, task, run_log,
                 shutdown_returned, connVars, timeVars>>

\* Reactor::Shutdown without the early return of a later call.
ShutdownCallNoReturn(th) ==
  /\ pc[th] = "idle"
  /\ lock_ = {}
  /\ sd_calls' = sd_calls + 1
  /\ closing_' = TRUE
  /\ closer' = IF closing_ THEN closer ELSE {th}
  /\ drained_at_close' =
       IF closing_ THEN drained_at_close ELSE {tasks[i] : i \in 1..Len(tasks)}
  /\ pc' = [pc EXCEPT ![th] = "sd_closing"]
  /\ UNCHANGED <<lock_, pending_tasks_, async_sent, loopVars, cur, task, run_log,
                 shutdown_returned, connVars, timeVars>>

\* Reactor::Shutdown, its critical section:
\*   lock_guard(lock_); if (closing_) return; closing_ = true;
ShutdownCall(th) ==
  /\ pc[th] = "idle"
  /\ lock_ = {}
  /\ sd_calls' = sd_calls + 1
  /\ IF closing_
     THEN UNCHANGED <<closing_, closer, drained_at_close, pc>>
     ELSE /\ closing_' = TRUE
          /\ closer' = {th}
          /\ drained_at_close' = {tasks[i] : i \in 1..Len(tasks)}
          /\ pc' = [pc EXCEPT ![th] = "sd_closing"]
  /\ UNCHANGED <<lock_, pending_tasks_, async_sent, loopVars, cur, task, run_log,
                 shutdown_returned, connVars, timeVars>>

\* ReactorThread::Shutdown: CHECK(reactor_->closing())
SdClosing(th) ==
  /\ pc[th] = "sd_closing"
  /\ lock_ = {}
  /\ check_failed' = (check_failed \/ ~closing_)
  /\ pc' = [pc EXCEPT ![th] = "sd_wake"]
  /\ UNCHANGED <<reactorVars, loopVars, cur, task, run_log,
                 ghostVars, conns, client_conns_, server_conns_, calls, timeVars>>

\* ReactorThread::Shutdown without the wake-up.
SdWakeLost(th) ==
  /\ pc[th] = "sd_wake"
  /\ pc' = [pc EXCEPT ![th] = "sd_loop"]
  /\ UNCHANGED <<reactorVars, loopVars, cur, task, run_log,
                 ghostVars, connVars, timeVars>>

\* ReactorThread::Shutdown: WakeThread();
SdWake(th) ==
  /\ pc[th] = "sd_wake"
  /\ WakeThread
  /\ pc' = [pc EXCEPT ![th] = "sd_loop"]
  /\ UNCHANGED <<closing_, lock_, pending_tasks_, loopVars, cur, task, run_log,
                 ghostVars, connVars, timeVars>>

\* Shutdown returning without aborting what is still pending.
SdLoopNoDrain(th) ==
  /\ pc[th] = "sd_loop"
  /\ pc' = [pc EXCEPT ![th] = "idle"]
  /\ shutdown_returned' = TRUE
  /\ UNCHANGED <<reactorVars, loopVars, cur, task, run_log, closer,
                 sd_calls, drained_at_close, connVars, timeVars>>

\* Shutdown: while (!pending_tasks_.empty()) { task = front(); pop_front(); ...
\* and the return when the queue is empty.  No lock is held.
SdLoop(th) ==
  /\ pc[th] = "sd_loop"
  /\ IF pending_tasks_ = <<>>
     THEN /\ pc' = [pc EXCEPT ![th] = "idle"]
          /\ shutdown_returned' = TRUE
          /\ UNCHANGED <<pending_tasks_, cur>>
     ELSE /\ cur' = [cur EXCEPT ![th] = Head(pending_tasks_)]
          /\ pending_tasks_' = Tail(pending_tasks_)
          /\ pc' = [pc EXCEPT ![th] = "sd_abort"]
          /\ UNCHANGED shutdown_returned
  /\ UNCHANGED <<closing_, lock_, async_sent, loopVars, task, run_log, closer,
                 sd_calls, drained_at_close, connVars, timeVars>>

\* Shutdown: task.Abort(ShutdownError());
SdAbort(th) ==
  /\ pc[th] = "sd_abort"
  /\ AbortTask(cur[th], ShutdownError, th)
  /\ cur' = [cur EXCEPT ![th] = 0]
  /\ pc' = [pc EXCEPT ![th] = "sd_loop"]
  /\ UNCHANGED <<reactorVars, loopVars, run_log, ghostVars, timeVars>>

Init ==
  /\ closing_ = FALSE
  /\ lock_ = {}
  /\ pending_tasks_ = <<>>
  /\ async_sent = FALSE
  /\ loop_pc = "idle"
  /\ tasks = <<>>
  /\ pc = [th \in Threads |-> "idle"]
  /\ cur = [th \in Threads |-> 0]
  /\ task = <<>>
  /\ run_log = <<>>
  /\ closer = {}
  /\ shutdown_returned = FALSE
  /\ sd_calls = 0
  /\ drained_at_close = {}
  /\ conns = <<>>
  /\ client_conns_ = {}
  /\ server_conns_ = <<>>
  /\ calls = <<>>
  /\ check_failed = FALSE
  /\ now = 0
  /\ cur_time_ = 0
  /\ ticks = 0
  /\ scan_idle = {}


\* ------------------------------------------------------- the loop thread
\* loop_.run(0) delivers a pending async send to AsyncHandler (the send flag
\* is cleared before the callback runs).
AsyncStart ==
  /\ loop_pc = "idle"
  /\ async_sent
  /\ async_sent' = FALSE
  /\ loop_pc' = "ah_closing"
  /\ UNCHANGED <<closing_, lock_, pending_tasks_, tasks, threadVars, task, run_log,
                 ghostVars, connVars, timeVars>>

\* AsyncHandler with the test of closing() inverted.
AhClosingInverted ==
  /\ loop_pc = "ah_closing"
  /\ lock_ = {}
  /\ loop_pc' = IF ~closing_ THEN "ah_shutdown" ELSE "ah_drain"
  /\ UNCHANGED <<reactorVars, tasks, threadVars, task,
                 run_log, ghostVars, connVars, timeVars>>

\* AsyncHandler: if (PREDICT_FALSE(reactor_->closing()))
AhClosing ==
  /\ loop_pc = "ah_closing"
  /\ lock_ = {}
  /\ loop_pc' = IF closing_ THEN "ah_shutdown" ELSE "ah_drain"
  /\ UNCHANGED <<reactorVars, tasks, threadVars, task,
                 run_log, ghostVars, connVars, timeVars>>

\* AsyncHandler that, after ShutdownInternal, takes the pending tasks as its
\* batch and goes on to run them instead of returning.
AhShutdownNoReturn ==
  /\ loop_pc = "ah_shutdown"
  /\ SetLoopState(ShutdownInternal(LoopState))
  /\ pending_tasks_' = <<>>
  /\ tasks' = pending_tasks_
  /\ loop_pc' = "ah_run"
  /\ UNCHANGED <<closing_, lock_, async_sent, threadVars, task, run_log, ghostVars, timeVars>>

\* AsyncHandler: ShutdownInternal(); loop_.break_loop(); return; and RunThread
\* returning from loop_.run(0).
AhShutdown ==
  /\ loop_pc = "ah_shutdown"
  /\ SetLoopState(ShutdownInternal(LoopState))
  /\ loop_pc' = "exited"
  /\ UNCHANGED <<reactorVars, tasks, threadVars, task, run_log, ghostVars, timeVars>>

\* DrainTaskQueue returning false with the lock still held.
DrainTaskQueueLeak ==
  /\ loop_pc = "ah_drain"
  /\ lock_ = {}
  /\ lock_' = {LoopThread}
  /\ loop_pc' = IF closing_ THEN "ah_run" ELSE "ah_drain_swap"
  /\ UNCHANGED <<closing_, pending_tasks_, async_sent, tasks, threadVars, task,
                 run_log, ghostVars, connVars, timeVars>>

\* DrainTaskQueue without the test of closing_.
DrainTaskQueueNoCheck ==
  /\ loop_pc = "ah_drain"
  /\ lock_ = {}
  /\ lock_' = {LoopThread}
  /\ loop_pc' = "ah_drain_swap"
  /\ UNCHANGED <<closing_, pending_tasks_, async_sent, tasks, threadVars, task,
                 run_log, ghostVars, connVars, timeVars>>

\* DrainTaskQueue: lock_guard(lock_); if (closing_) return false;
DrainTaskQueue ==
  /\ loop_pc = "ah_drain"
  /\ lock_ = {}
  /\ IF closing_
     THEN /\ UNCHANGED lock_
          /\ loop_pc' = "ah_run"
     ELSE /\ lock_' = {LoopThread}
          /\ loop_pc' = "ah_drain_swap"
  /\ UNCHANGED <<closing_, pending_tasks_, async_sent, tasks, threadVars, task,
                 run_log, ghostVars, connVars, timeVars>>

\* DrainTaskQueue: tasks->swap(pending_tasks_); return true;
DrainSwap ==
  /\ loop_pc = "ah_drain_swap"
  /\ tasks' = pending_tasks_
  /\ pending_tasks_' = tasks
  /\ Release(LoopThread)
  /\ loop_pc' = "ah_run"
  /\ UNCHANGED <<closing_, async_sent, threadVars, task, run_log, ghostVars,
                 connVars, timeVars>>

\* AsyncHandler: ReactorTask &task = tasks.front(); tasks.pop_front(); and the
\* bookkeeping of task.Run(this).
PopAndRun(t) ==
  /\ loop_pc = "ah_run"
  /\ tasks # <<>>
  /\ t = Head(tasks)
  /\ tasks' = Tail(tasks)
  /\ run_log' = Append(run_log, t)
  /\ UNCHANGED <<loop_pc, reactorVars, threadVars, ghostVars, timeVars>>

\* The record of a task once Run was invoked on it.
Ran(t) ==
  [task EXCEPT ![t].runs = @ + 1, ![t].run_after_return = shutdown_returned]

\* RegisterConnectionTask::Run, the negotiation executor answering s
RunRegisterConnection(s) ==
  \E t \in 1..Len(task) :
    /\ PopAndRun(t)
    /\ task[t].kind = "RegisterConnection"
    /\ task' = Ran(t)
    /\ SetLoopState(RegisterConnection(LoopState, task[t].conn, s))

\* AssignOutboundCallTask::Run, the socket calls answering sock and the
\* negotiation executor s
RunAssignOutboundCall(sock, s) ==
  \E t \in 1..Len(task) :
    /\ PopAndRun(t)
    /\ task[t].kind = "AssignOutboundCall"
    /\ task' = Ran(t)
    /\ SetLoopState(AssignOutboundCall(LoopState, task[t].call, sock, s, now))

\* The Run of the task the negotiation callback scheduled.  The task keeps what
\* the Connection answered in this Run: whether service_name() was empty, asked
\* of a negotiation that ended OK, and the result of SetNonBlocking(true),
\* called on a Connection with a service name.
RunNegotiationCompleted(name_empty, nb) ==
  \E t \in 1..Len(task) :
    /\ PopAndRun(t)
    /\ task[t].kind = "NegotiationCompleted"
    /\ task' = [Ran(t) EXCEPT
                  ![t].service_name_empty = task[t].status = StatusOK /\ name_empty,
                  ![t].set_nonblocking =
                     IF task[t].status = StatusOK /\ ~name_empty THEN nb ELSE NoStatus]
    /\ SetLoopState(CompleteConnectionNegotiation(LoopState, task[t].conn,
                                                  task[t].status, name_empty, nb))

\* GetMetricsTask::Run
RunGetMetrics ==
  \E t \in 1..Len(task) :
    /\ PopAndRun(t)
    /\ task[t].kind = "GetMetrics"
    /\ task' = [Ran(t) EXCEPT ![t].metrics = GetMetricsInternal(LoopState),
                              ![t].latch = IF @ > 0 THEN @ - 1 ELSE @]
    /\ UNCHANGED connVars

\* AsyncHandler: while (!tasks.empty()) is over.
AhReturn ==
  /\ loop_pc = "ah_run"
  /\ tasks = <<>>
  /\ loop_pc' = "idle"
  /\ UNCHANGED <<reactorVars, tasks, threadVars, task, run_log, ghostVars,
                 connVars, timeVars>>

\* TimerHandler: the watcher reports an error.
TimerError ==
  /\ loop_pc = "idle"
  /\ ticks' = ticks + 1
  /\ UNCHANGED <<reactorVars, loopVars, threadVars, task, run_log, ghostVars,
                 connVars, now, cur_time_, scan_idle>>

\* TimerHandler: cur_time_ = now; with the clock reading t
TimerStart(t) ==
  /\ loop_pc = "idle"
  /\ ticks' = ticks + 1
  /\ t >= now
  /\ now' = t
  /\ cur_time_' = t
  /\ loop_pc' = "th_scan"
  /\ UNCHANGED <<reactorVars, tasks, threadVars, task, run_log, ghostVars, connVars,
                 scan_idle>>

\* TimerHandler: ScanIdleConnections();
TimerScan ==
  /\ loop_pc = "th_scan"
  /\ \E idle \in SUBSET {server_conns_[i] : i \in 1..Len(server_conns_)} :
       /\ SetLoopState(ScanIdleConnections(LoopState, idle, cur_time_))
       /\ scan_idle' = idle
  /\ loop_pc' = "idle"
  /\ UNCHANGED <<reactorVars, tasks, threadVars, task, run_log, ghostVars,
                 now, cur_time_, ticks>>

\* ------------------------------------------------------------- the system
\* No CHECK has aborted the process.
Alive == ~check_failed

\* A foreign thread goes on with the call it is in.
ThreadContinue(th) ==
  \/ Alive /\ SchedAbort(th)
  \/ Alive /\ SchedPush(th)
  \/ Alive /\ SchedWake(th)
  \/ Alive /\ MetricsWait(th)
  \/ Alive /\ SdClosing(th)
  \/ Alive /\ SdWake(th)
  \/ Alive /\ SdLoop(th)
  \/ Alive /\ SdAbort(th)

\* The AsyncHandler of the loop thread.
AsyncHandler ==
  \/ Alive /\ AsyncStart
  \/ Alive /\ AhClosing
  \/ Alive /\ AhShutdown
  \/ Alive /\ DrainTaskQueue
  \/ Alive /\ DrainSwap
  \/ Alive /\ AhReturn

\* Every task Run of the loop, the environment answering without error.
RunTaskNoFault ==
  \/ Alive /\ RunRegisterConnection(StatusOK)
  \/ Alive /\ RunAssignOutboundCall(StatusOK, StatusOK)
  \/ Alive /\ RunGetMetrics

\* Every task Run of the loop, the environment answering anything it can.
RunTask ==
  \/ Alive /\ \E s \in SubmitResults : RunRegisterConnection(s)
  \/ Alive /\ \E sock \in ConnectResults, s \in SubmitResults :
                RunAssignOutboundCall(sock, s)
  \/ Alive /\ \E name_empty \in BOOLEAN, nb \in {StatusOK, NonBlockingError} :
                RunNegotiationCompleted(name_empty, nb)
  \/ Alive /\ RunGetMetrics

\* The TimerHandler of the loop thread, at most MaxTimerTicks times.
TimerHandler ==
  \/ Alive /\ ticks < MaxTimerTicks /\ TimerError
  \/ Alive /\ ticks < MaxTimerTicks /\ \E t \in 0..MaxTime : TimerStart(t)
  \/ Alive /\ TimerScan

\* AssignOutboundCall tasks that may still construct a Connection.
Reserved ==
  Cardinality({t \in 1..Len(task) :
                 task[t].kind = "AssignOutboundCall" /\ task[t].runs + task[t].aborts = 0})

\* A Connection can still be constructed within MaxConns.
ConnBudget == Len(conns) + Reserved < MaxConns

\* A task can still be constructed within MaxTasks.
TaskBudget == Alive /\ Len(task) < MaxTasks

\* Foreign threads, several at once, an environment without errors, no timer:
\* the queue and shutdown protocol under every interleaving.
Next ==
  \/ \E th \in Threads :
       \/ TaskBudget /\ ConnBudget /\ RegisterInboundSocket(th)
       \/ TaskBudget /\ ConnBudget /\ QueueOutboundCall(th, 1)
       \/ TaskBudget /\ GetMetrics(th)
       \/ Alive /\ sd_calls < MaxShutdownCalls /\ ShutdownCall(th)
       \/ ThreadContinue(th)
  \/ AsyncHandler
  \/ RunTaskNoFault

Spec == Init /\ [][Next]_vars

\* One foreign thread, every answer of the environment, the timer: the
\* connection tables of the loop.
NextLoop ==
  \/ TaskBudget /\ ConnBudget /\ RegisterInboundSocket(1)
  \/ TaskBudget /\ ConnBudget /\ \E id \in ConnIds : QueueOutboundCall(1, id)
  \/ TaskBudget /\ \E c \in 1..MaxConns, st \in {StatusOK, NegotiationFailed} :
                     NegotiationCallback(1, c, st)
  \/ TaskBudget /\ GetMetrics(1)
  \/ Alive /\ ~closing_ /\ ShutdownCall(1)
  \/ ThreadContinue(1)
  \/ AsyncHandler
  \/ RunTask
  \/ TimerHandler

SpecLoop == Init /\ [][NextLoop]_vars

\* The task Run of the loop for the tasks of outbound calls and of metrics; the
\* negotiation executor accepts the submit or, being shut down, refuses it.
RunTaskFair ==
  \/ Alive /\ \E s \in {StatusOK, SubmitIllegalState} :
                RunAssignOutboundCall(StatusOK, s)
  \/ Alive /\ RunGetMetrics

\* Foreign threads, several at once, and the timer, with the scheduler fair to
\* the loop thread and to every foreign thread inside a call.
\* Outbound calls and metrics are the tasks submitted.
NextFair ==
  \/ \E th \in Threads :
       \/ Alive /\ Len(task) < MaxFairTasks /\ ConnBudget /\ QueueOutboundCall(th, 1)
       \/ Alive /\ Len(task) < MaxFairTasks /\ GetMetrics(th)
       \/ Alive /\ sd_calls < MaxShutdownCalls /\ ShutdownCall(th)
       \/ ThreadContinue(th)
  \/ AsyncHandler
  \/ RunTaskFair
  \/ TimerHandler

LoopProgress == AsyncHandler \/ RunTaskFair \/ (Alive /\ TimerScan)

FairSpec ==
  /\ Init
  /\ [][NextFair]_vars
  /\ WF_vars(LoopProgress)
  /\ \A th \in Threads : WF_vars(ThreadContinue(th))

\* The task Run of the loop for inbound Connections and metrics; the negotiation
\* executor accepts the submit or, being shut down, refuses it.
RunTaskAccept ==
  \/ Alive /\ \E s \in {StatusOK, SubmitIllegalState} : RunRegisterConnection(s)
  \/ Alive /\ RunGetMetrics

\* Acceptor threads, several at once, handing inbound sockets over while the
\* Reactor is shut down, with the scheduler fair to the loop thread and to every
\* foreign thread inside a call.
NextAccept ==
  \/ \E th \in Threads :
       \/ Alive /\ Len(task) < MaxFairTasks /\ ConnBudget /\ RegisterInboundSocket(th)
       \/ Alive /\ Len(task) < MaxFairTasks /\ GetMetrics(th)
       \/ Alive /\ sd_calls < MaxShutdownCalls /\ ShutdownCall(th)
       \/ ThreadContinue(th)
  \/ AsyncHandler
  \/ RunTaskAccept

FairAccept ==
  /\ Init
  /\ [][NextAccept]_vars
  /\ WF_vars(AsyncHandler \/ RunTaskAccept)
  /\ \A th \in Threads : WF_vars(ThreadContinue(th))

\* The task Run of the loop for inbound Connections and metrics, the environment
\* answering anything it can.
RunTaskServer ==
  \/ Alive /\ \E s \in SubmitResults : RunRegisterConnection(s)
  \/ Alive /\ \E name_empty \in BOOLEAN, nb \in {StatusOK, NonBlockingError} :
                RunNegotiationCompleted(name_empty, nb)
  \/ Alive /\ RunGetMetrics

\* The periodic timer: it fires again after each scan, MaxPeriodicTicks times.
TimerPeriodic ==
  \/ Alive /\ ticks < MaxPeriodicTicks /\ TimerError
  \/ Alive /\ ticks < MaxPeriodicTicks /\ \E t \in 0..MaxTime : TimerStart(t)
  \/ Alive /\ TimerScan

\* One foreign thread handing over inbound Connections, every answer of the
\* environment, and the periodic timer: the idle scan of server_conns_.
NextTimer ==
  \/ TaskBudget /\ ConnBudget /\ RegisterInboundSocket(1)
  \/ TaskBudget /\ \E c \in 1..MaxConns, st \in {StatusOK, NegotiationFailed} :
                     NegotiationCallback(1, c, st)
  \/ TaskBudget /\ GetMetrics(1)
  \/ Alive /\ ~closing_ /\ ShutdownCall(1)
  \/ ThreadContinue(1)
  \/ AsyncHandler
  \/ RunTaskServer
  \/ TimerPeriodic

SpecTimer == Init /\ [][NextTimer]_vars

\* The reactor some time after start: n inbound Connections registered in turn
\* and under negotiation, each with its own time of last activity, and one
\* outbound Connection holding a call.  The tasks that made them have been Run.
InitScan ==
  \E n \in 1..MaxScanConns : \E la \in [1..n -> 0..Keepalive] :
    /\ closing_ = FALSE
    /\ lock_ = {}
    /\ pending_tasks_ = <<>>
    /\ async_sent = FALSE
    /\ loop_pc = "idle"
    /\ tasks = <<>>
    /\ pc = [th \in Threads |-> "idle"]
    /\ cur = [th \in Threads |-> 0]
    /\ task = [i \in 1..(n + 1) |->
                 IF i <= n
                 THEN [NewTask("RegisterConnection", 1, i, 0, NoStatus)
                         EXCEPT !.runs = 1, !.accepted = TRUE]
                 ELSE [NewTask("AssignOutboundCall", 1, 0, 1, NoStatus)
                         EXCEPT !.runs = 1, !.accepted = TRUE]]
    /\ run_log = [i \in 1..(n + 1) |-> i]
    /\ closer = {}
    /\ shutdown_returned = FALSE
    /\ sd_calls = 0
    /\ drained_at_close = {}
    /\ conns = [i \in 1..(n + 1) |->
                  IF i <= n
                  THEN [NewConnection("SERVER", 0, la[i])
                          EXCEPT !.registered = TRUE, !.negotiating = TRUE]
                  ELSE [NewConnection("CLIENT", 1, 0)
                          EXCEPT !.registered = TRUE, !.negotiating = TRUE,
                                 !.calls = {1}]]
    /\ client_conns_ = {<<1, n + 1>>}
    /\ server_conns_ = [i \in 1..n |-> i]
    /\ calls = <<[conn_id |-> 1, status |-> NoStatus, conn |-> n + 1]>>
    /\ check_failed = FALSE
    /\ now = Keepalive
    /\ cur_time_ = 0
    /\ ticks = 0
    /\ scan_idle = {}

\* The periodic timer alone, on a reactor that already has its Connections.
NextScan ==
  \/ Alive /\ ticks < MaxPeriodicTicks /\ TimerError
  \/ Alive /\ ticks < MaxPeriodicTicks /\ \E t \in 0..MaxTime : TimerStart(t)
  \/ Alive /\ TimerScan

SpecScan == InitScan /\ [][NextScan]_vars

\* ----------------------------------------------------------------- claims
TaskIds == 1..Len(task)
Elems(q) == {q[i] : i \in 1..Len(q)}
Finalisations(t) == task[t].runs + task[t].aborts

\* C1: every task that ScheduleReactorTask appended to the pending queue gets
\* Run and Abort at most once together, and once the loop thread has exited and
\* the Shutdown call that set closing_ has returned it has got exactly one.
C1_ExactlyOnce ==
  /\ \A t \in TaskIds : task[t].accepted => Finalisations(t) <= 1
  /\ (loop_pc = "exited" /\ shutdown_returned)
       => \A t \in TaskIds : task[t].accepted => Finalisations(t) = 1

\* One accepted task was Run, another was Aborted, and the reactor is down.
C1_Witness ==
  /\ loop_pc = "exited"
  /\ shutdown_returned
  /\ \E t1, t2 \in TaskIds :
       /\ task[t1].accepted /\ task[t1].runs = 1 /\ task[t1].aborts = 0
       /\ task[t2].accepted /\ task[t2].aborts = 1 /\ task[t2].runs = 0

\* C2 as stated: no task is Run once the Shutdown call that set closing_ has
\* returned.
C2_NoRunAfterReturn == \A t \in TaskIds : ~task[t].run_after_return

\* C2 as amended: once closing_ is set the local list of AsyncHandler holds only
\* tasks swapped into it before closing_ was set, and a task Run after Shutdown
\* has returned is one of those.
C2_OnlyDrainedRunAfterReturn ==
  /\ closing_ => Elems(tasks) \subseteq drained_at_close
  /\ \A t \in TaskIds : task[t].run_after_return => t \in drained_at_close

\* A task swapped before closing_ was set was Run after Shutdown returned.
C2_Witness ==
  \E t \in TaskIds :
    task[t].run_after_return /\ t \in drained_at_close /\ task[t].aborts = 0

\* C3: a ScheduleReactorTask call that takes the lock with closing_ set does not
\* queue the task and does not wake the loop, and Aborts the task on the calling
\* thread with the shutdown error, the lock not held; a refused task is never
\* in the pending queue or in the local list of the loop.
C3_RefusedWhenClosing ==
  [][/\ (Len(task') > Len(task) /\ closing_)
          => /\ UNCHANGED <<pending_tasks_, async_sent, lock_>>
             /\ \E th \in Threads : pc'[th] = "sched_abort" /\ cur'[th] = Len(task')
     /\ \A th \in Threads :
          (pc[th] = "sched_abort" /\ pc'[th] # "sched_abort")
            => /\ task'[cur[th]].aborts = 1
               /\ task'[cur[th]].runs = 0
               /\ task'[cur[th]].abort_status = ShutdownError
               /\ task'[cur[th]].abort_thread = {th}
               /\ th \notin lock_
               /\ UNCHANGED <<pending_tasks_, async_sent>>
     /\ \A t \in TaskIds :
          task[t].refused => t \notin Elems(pending_tasks_) \cup Elems(tasks)
    ]_vars

\* A refused task was Aborted by the thread that submitted it.
C3_Witness ==
  \E t \in TaskIds :
    /\ task[t].refused
    /\ task[t].aborts = 1
    /\ task[t].abort_thread = {task[t].thread}
    /\ task[t].abort_status = ShutdownError

\* C4: under fair scheduling a task appended to the pending queue is eventually
\* Run or Aborted.
C4_AcceptedEventuallyFinalised ==
  \A t \in 1..MaxFairTasks :
    (t \in TaskIds /\ task[t].accepted) ~> (t \in TaskIds /\ Finalisations(t) >= 1)

\* Shutdown Aborted an accepted task whose submitter has not yet woken the loop.
C4_Witness ==
  \E th \in Threads :
    /\ pc[th] = "sched_wake"
    /\ task[cur[th]].accepted
    /\ task[cur[th]].aborts = 1

\* C5: two tasks of one foreign thread are Run in the order they were submitted
\* (task ids grow in the order the calls begin).
C5_Fifo ==
  \A i, j \in 1..Len(run_log) :
    (i < j /\ task[run_log[i]].thread = task[run_log[j]].thread)
      => run_log[i] < run_log[j]

\* Two tasks of one thread were Run in two different drains, a task of another
\* thread among them.
C5_Witness ==
  /\ Len(run_log) = 3
  /\ \E i, j, k \in 1..3 :
       /\ i < j
       /\ task[run_log[i]].thread = task[run_log[j]].thread
       /\ task[run_log[k]].thread # task[run_log[i]].thread

\* Running, Closing, Terminated
ReactorState ==
  IF loop_pc = "exited" THEN "Terminated"
  ELSE IF closing_ THEN "Closing" ELSE "Running"

\* C6: closing_ never goes back to false, and the Reactor only moves from
\* Running to Closing and from Closing to Terminated.
C6_Monotonic ==
  [][/\ closing_ => closing_'
     /\ <<ReactorState, ReactorState'>> \in
          {<<"Running", "Running">>, <<"Running", "Closing">>,
           <<"Closing", "Closing">>, <<"Closing", "Terminated">>,
           <<"Terminated", "Terminated">>}
    ]_vars

\* The Reactor reached Terminated.
C6_Witness == ReactorState = "Terminated" /\ closing_

\* C7: under fair scheduling, once closing_ is set the loop thread exits.
C7_ClosingLeadsToExit == closing_ ~> (loop_pc = "exited")

\* The wake-up of Shutdown was sent while the loop was inside TimerHandler.
C7_Witness ==
  /\ closing_
  /\ async_sent
  /\ loop_pc = "th_scan"
  /\ \E th \in Threads : pc[th] = "sd_loop"

\* C8: a Shutdown call that finds closing_ set returns at once: it changes no
\* state of the Reactor, wakes nobody and aborts nothing.
C8_ShutdownIdempotent ==
  [][(sd_calls' # sd_calls /\ closing_)
       => UNCHANGED <<reactorVars, loopVars, threadVars, task, run_log, closer,
                      shutdown_returned, drained_at_close, connVars>>
    ]_vars

\* A second Shutdown call was made while the first was still at work.
C8_Witness ==
  /\ sd_calls = 2
  /\ \E th \in Threads : pc[th] \in {"sd_closing", "sd_wake", "sd_loop", "sd_abort"}

\* The CLIENT Connections constructed so far.
ClientConns == {c \in 1..Len(conns) : conns[c].direction = "CLIENT"}

\* C9: client_conns_ holds at most one entry per ConnectionId, no two CLIENT
\* Connections with an open socket have the same ConnectionId, and two calls with
\* the same ConnectionId queued on Connections still open are on the same one.
C9_ClientDedup ==
  /\ \A p, q \in client_conns_ : p[1] = q[1] => p = q
  /\ \A c1, c2 \in ClientConns :
       (conns[c1].fd_open /\ conns[c2].fd_open
          /\ conns[c1].conn_id = conns[c2].conn_id) => c1 = c2
  /\ \A k1, k2 \in 1..Len(calls) :
       (/\ calls[k1].conn_id = calls[k2].conn_id
        /\ calls[k1].conn # 0 /\ calls[k2].conn # 0
        /\ conns[calls[k1].conn].fd_open /\ conns[calls[k2].conn].fd_open)
         => calls[k1].conn = calls[k2].conn

\* Two calls with one ConnectionId share the only Connection ever constructed.
C9_Witness ==
  /\ Cardinality(ClientConns) = 1
  /\ \E k1, k2 \in 1..Len(calls) :
       /\ k1 # k2
       /\ calls[k1].conn # 0
       /\ calls[k1].conn = calls[k2].conn
       /\ k1 \in conns[calls[k1].conn].calls
       /\ k2 \in conns[calls[k1].conn].calls

\* The Connections registered with this loop whose fd is open.
OpenRegistered == {c \in 1..Len(conns) : conns[c].registered /\ conns[c].fd_open}
InTables == {p[2] : p \in client_conns_} \cup Elems(server_conns_)

\* C10: when no handler is executing, the open Connections registered with the
\* loop are as many as the entries of the two tables, every entry is open, and
\* every open registered Connection is in a table.
C10_FdSafety ==
  loop_pc = "idle"
    => /\ Cardinality(OpenRegistered) = Cardinality(client_conns_) + Len(server_conns_)
       /\ \A c \in InTables : conns[c].fd_open
       /\ OpenRegistered \subseteq InTables

\* A Connection that RegisterConnection shut down sits in server_conns_ while
\* the loop is between handlers.
C10_ClosedInServerConns ==
  /\ loop_pc = "idle"
  /\ \E c \in Elems(server_conns_) :
       ~conns[c].fd_open /\ conns[c].shutdown_status \in SubmitResults \ {StatusOK}

\* C11: when a ScanIdleConnections completes, every Connection of server_conns_
\* that answered Idle() and whose last activity lies more than the keepalive
\* before cur_time_ (so every one idle for longer than keepalive plus one timer
\* period) has been shut down with the timed-out error and removed, and every
\* other Connection of the list is left in it untouched.
C11_IdleGcBound ==
  [][(loop_pc = "th_scan" /\ loop_pc' = "idle")
       => \A c \in Elems(server_conns_) :
            IF c \in scan_idle' /\ cur_time_ - conns[c].last_activity > Keepalive
            THEN /\ c \notin Elems(server_conns_')
                 /\ ~conns'[c].fd_open
                 /\ conns'[c].shutdown_status = TimedOutError
            ELSE /\ c \in Elems(server_conns_')
                 /\ conns'[c] = conns[c]
    ]_vars

\* The second scan timed one idle Connection out and kept a younger idle one.
C11_Witness ==
  /\ loop_pc = "idle"
  /\ ticks = 2
  /\ \E c1, c2 \in scan_idle :
       /\ c1 \notin Elems(server_conns_)
       /\ conns[c1].shutdown_status = TimedOutError
       /\ c2 \in Elems(server_conns_)
       /\ conns[c2].fd_open

\* C12: a call is only ever failed with a service-unavailable status when the
\* only trouble is the shutdown (task Abort, the refusal of the negotiation
\* executor remapped by FindOrStartConnection, teardown by ShutdownInternal),
\* and under fair scheduling every call submitted is failed once the Reactor
\* is closing: none stays pending for ever.
C12_CallsFailOnShutdown ==
  /\ [](\A k \in 1..Len(calls) :
          calls[k].status \in {NoStatus} \cup ServiceUnavailable)
  /\ \A k \in 1..MaxFairTasks :
       (closing_ /\ k <= Len(calls))
         ~> (k <= Len(calls) /\ calls[k].status \in ServiceUnavailable)

\* One call was refused by the executor and remapped, another was queued on a
\* Connection and failed by the teardown of the loop.
C12_Witness ==
  /\ loop_pc = "exited"
  /\ \E k1, k2 \in 1..Len(calls) :
       /\ calls[k1].status = MessengerShuttingDown
       /\ calls[k2].status = ShutdownError
       /\ calls[k2].conn # 0
       /\ conns[calls[k2].conn].shutdown_status = ShutdownError

\* The RegisterConnectionTasks constructed so far.
RegisterTasks == {t \in TaskIds : task[t].kind = "RegisterConnection"}

\* C13: with acceptor threads calling RegisterInboundSocket while the Reactor is
\* shut down, a Connection whose task was Aborted was never registered and is in
\* no table and closed, a Connection whose task was Run was registered by the
\* loop, no task gets both, and under fair scheduling Shutdown returns, every
\* call returns and the loop thread exits, every task finalised.
C13_ShutdownWithIncoming ==
  /\ [](\A t \in RegisterTasks :
          /\ task[t].runs + task[t].aborts <= 1
          /\ task[t].aborts = 1
               => /\ ~conns[task[t].conn].registered
                  /\ task[t].conn \notin Elems(server_conns_)
                  /\ ~conns[task[t].conn].fd_open
          /\ task[t].runs = 1 => conns[task[t].conn].registered
          /\ task[t].conn \in Elems(server_conns_) => task[t].runs = 1)
  /\ closing_ ~> (/\ loop_pc = "exited"
                  /\ shutdown_returned
                  /\ \A th \in Threads : pc[th] = "idle"
                  /\ \A t \in RegisterTasks : task[t].runs + task[t].aborts = 1)

\* After the shutdown one Connection had been registered by Run, one was dropped
\* by the Abort of the drain loop of Shutdown.
C13_Witness ==
  /\ loop_pc = "exited"
  /\ shutdown_returned
  /\ \A th \in Threads : pc[th] = "idle"
  /\ \E t1, t2 \in RegisterTasks :
       /\ task[t1].runs = 1
       /\ conns[task[t1].conn].shutdown_status = ShutdownError
       /\ task[t2].aborts = 1
       /\ task[t2].accepted
       /\ ~conns[task[t2].conn].registered

\* The GetMetricsTasks constructed so far, and those whose GetMetrics returned.
MetricsTasks == {t \in TaskIds : task[t].kind = "GetMetrics"}
MetricsReturned(t) == cur[task[t].thread] # t

\* C14: the latch of a GetMetricsTask is counted down exactly once, by Run or by
\* Abort and never by both; Run leaves the counts of the two connection tables
\* and no status, Abort leaves the shutdown error; GetMetrics returns only after
\* that, and under fair scheduling it always returns.
C14_GetMetricsReturns ==
  /\ [](\A t \in MetricsTasks :
          /\ task[t].runs + task[t].aborts <= 1
          /\ task[t].latch = 1 - (task[t].runs + task[t].aborts)
          /\ task[t].runs = 1
               => task[t].abort_status = NoStatus /\ Len(task[t].metrics) = 2
          /\ task[t].aborts = 1
               => task[t].abort_status = ShutdownError /\ task[t].metrics = <<>>
          /\ MetricsReturned(t) => task[t].runs + task[t].aborts = 1)
  /\ [][\A t \in MetricsTasks :
          task'[t].runs # task[t].runs
            => task'[t].metrics = <<Cardinality(client_conns_), Len(server_conns_)>>
      ]_vars
  /\ \A th \in Threads : (pc[th] = "metrics_wait") ~> (pc[th] = "idle")

\* One GetMetrics returned the counts, one returned the shutdown error of an
\* Abort made by the drain loop of Shutdown.
C14_Witness ==
  \E t1, t2 \in MetricsTasks :
    /\ MetricsReturned(t1) /\ task[t1].runs = 1
    /\ MetricsReturned(t2) /\ task[t2].aborts = 1 /\ task[t2].accepted

\* C15: a thread that is about to invoke Abort, in the refusal path of
\* ScheduleReactorTask or in the drain loop of Shutdown, does not hold the
\* Reactor lock, and no step in which a task is Aborted is made by a holder of
\* the lock.
C15_AbortWithoutLock ==
  [][/\ \A th \in Threads :
          pc[th] \in {"sched_abort", "sd_abort"} => th \notin lock_
     /\ \A t \in TaskIds :
          task'[t].aborts # task[t].aborts
            => task'[t].abort_thread \cap (lock_ \cup lock_') = {}
    ]_vars

\* One task was Aborted by the thread that submitted it, another by the drain
\* loop of Shutdown on a different thread.
C15_Witness ==
  \E t1, t2 \in TaskIds :
    /\ task[t1].refused /\ task[t1].aborts = 1
    /\ task[t1].abort_thread = {task[t1].thread}
    /\ task[t2].accepted /\ task[t2].aborts = 1
    /\ task[t2].abort_thread = closer
    /\ task[t2].thread \notin closer

\* The thread making a step holds the Reactor lock when the step begins.
StepUnderLock ==
  \/ \E th \in Threads : th \in lock_ /\ pc'[th] # pc[th]
  \/ LoopThread \in lock_ /\ loop_pc' # loop_pc

\* The threads inside the drain loop of Reactor::Shutdown.
Draining == {th \in Threads : pc[th] \in {"sd_loop", "sd_abort"}}

\* C16 as stated: every step that changes the pending queue is made by a thread
\* that holds the Reactor lock.
C16_QueueMutatedUnderLock ==
  [][pending_tasks_' # pending_tasks_ => StepUnderLock]_vars

\* C16 as amended: closing_ is set in a critical section of the lock; the
\* pending queue is changed by a holder of the lock, or else, closing_ being set,
\* by the one thread in the drain loop of the Shutdown call that set it; and
\* while that thread is in the loop nobody holds the lock and no other thread is
\* at an access of the queue.
C16_QueueGuardedOrDrained ==
  [][/\ closing_' # closing_ => lock_ = {} /\ lock_' = {}
     /\ pending_tasks_' # pending_tasks_
          => \/ StepUnderLock
             \/ /\ closing_
                /\ \E th \in closer : pc[th] = "sd_loop" /\ pc'[th] = "sd_abort"
     /\ Draining # {}
          => /\ Draining = closer
             /\ closing_
             /\ lock_ = {}
             /\ \A th \in Threads : pc[th] # "sched_push"
             /\ loop_pc # "ah_drain_swap"
    ]_vars

\* The drain loop of Shutdown has taken a task off the queue, no lock held,
\* while another thread is in the refusal path of ScheduleReactorTask.
C16_Witness ==
  \E th1, th2 \in Threads :
    /\ pc[th1] = "sd_abort"
    /\ th1 \in closer
    /\ lock_ = {}
    /\ pc[th2] = "sched_abort"

\* The statuses with which the submit to the negotiation executor fails.
SubmitFailures == SubmitResults \ {StatusOK}

\* C17: when RegisterConnectionTask::Run returns, the Connection is in
\* server_conns_ and open if the negotiation was submitted, and otherwise it is
\* shut down with the error of the submit and is not in server_conns_.
C17_FailedNotInServerConns ==
  [][\A t \in RegisterTasks :
       task'[t].runs # task[t].runs
         => IF conns'[task[t].conn].negotiating
            THEN /\ task[t].conn \in Elems(server_conns_')
                 /\ conns'[task[t].conn].fd_open
            ELSE /\ task[t].conn \notin Elems(server_conns_')
                 /\ ~conns'[task[t].conn].fd_open
                 /\ conns'[task[t].conn].shutdown_status \in SubmitFailures
    ]_vars

\* RegisterConnection has returned from a failed submit: the Connection is shut
\* down with the error of the submit and is the last element of server_conns_.
C17_DestroyedThenAppended ==
  /\ loop_pc = "ah_run"
  /\ server_conns_ # <<>>
  /\ ~conns[server_conns_[Len(server_conns_)]].fd_open
  /\ ~conns[server_conns_[Len(server_conns_)]].negotiating
  /\ conns[server_conns_[Len(server_conns_)]].shutdown_status \in SubmitFailures

PendingAtClose ==
  Elems(pending_tasks_) \cup {cur[th] : th \in {x \in Threads : pc[x] = "sd_abort"}}

\* C19: an AsyncHandler invocation that sees closing_ set runs ShutdownInternal
\* and breaks the loop; it neither drains pending_tasks_ nor Runs a task.  The
\* tasks pending at that point are finalised only by the Abort of the thread
\* that runs Reactor::Shutdown, with the shutdown status.
C19_ClosingSkipsDrain ==
  [][/\ (loop_pc = "ah_closing" /\ closing_ /\ loop_pc' # loop_pc)
          => /\ loop_pc' = "ah_shutdown"
             /\ pending_tasks_' = pending_tasks_
             /\ tasks' = tasks
             /\ run_log' = run_log
     /\ (loop_pc = "ah_shutdown" /\ loop_pc' # loop_pc)
          => /\ loop_pc' = "exited"
             /\ client_conns_' = {} /\ server_conns_' = <<>>
             /\ pending_tasks_' = pending_tasks_
             /\ tasks' = tasks
             /\ run_log' = run_log
     /\ loop_pc \in {"ah_shutdown", "exited"}
          => /\ run_log' = run_log
             /\ \A t \in PendingAtClose :
                  task'[t] # task[t]
                    => /\ task'[t].runs = task[t].runs
                       /\ task'[t].aborts = task[t].aborts + 1
                       /\ task'[t].abort_status = ShutdownError
                       /\ \E th \in closer :
                            /\ pc[th] = "sd_abort" /\ cur[th] = t
                            /\ task'[t].abort_thread = {th}
    ]_vars

\* The loop saw closing_ and exited with a task still on pending_tasks_, and
\* Shutdown has Aborted another task that was never Run.
C19_Witness ==
  /\ loop_pc = "exited"
  /\ pending_tasks_ # <<>>
  /\ \E t \in TaskIds :
       /\ task[t].accepted /\ task[t].runs = 0 /\ task[t].aborts = 1
       /\ task[t].abort_status = ShutdownError
       /\ task[t].abort_thread \subseteq closer

\* ------------------------------------------------------------------- C20
\* The CLIENT Connections a negotiation completion can still reach: those the
\* executor is working on and those whose completion task waits to be Run.
AwaitingCompletion ==
  {c \in ClientConns :
     \/ conns[c].negotiating
     \/ \E t \in TaskIds : /\ task[t].kind = "NegotiationCompleted"
                           /\ task[t].conn = c
                           /\ Finalisations(t) = 0}

\* C20: the CHECK of DestroyConnection never fails.  While the loop runs, a
\* CLIENT Connection whose negotiation completion is still to come is the entry
\* of client_conns_ under its ConnectionId, so the DestroyConnection that
\* CompleteConnectionNegotiation issues finds it.
C20_CheckNeverFails ==
  /\ ~check_failed
  /\ loop_pc # "exited"
       => \A c \in AwaitingCompletion : <<conns[c].conn_id, c>> \in client_conns_

\* CompleteConnectionNegotiation destroyed a CLIENT Connection: its
\* ConnectionId was found and erased, and the loop is still running.
C20_Witness ==
  /\ ~check_failed
  /\ loop_pc # "exited"
  /\ \E c \in ClientConns :
       /\ conns[c].shutdown_status
            \in {NegotiationFailed, IllegalStateServiceName, NonBlockingError}
       /\ ~conns[c].fd_open
       /\ Find(client_conns_, conns[c].conn_id) = {}

\* ------------------------------------------------------------------- C21
\* The statuses FindOrStartConnection returns on its error paths.
FindOrStartErrors ==
  {SocketError, ConnectError, MessengerShuttingDown, NegotiationThreadError}

\* C21: the Run of an AssignOutboundCall task whose ConnectionId is not in
\* client_conns_ has two outcomes only.  Either FindOrStartConnection fails:
\* client_conns_ is unchanged, a Connection made on the way is dropped without
\* being inserted, and the call is failed with the returned status and is on no
\* Connection; the status of the executor is never passed on as it is.  Or it
\* succeeds: the new Connection is the entry of the ConnectionId and holds the
\* call.
C21_ErrorLeavesNoConnection ==
  [][\A t \in TaskIds :
       (/\ task[t].kind = "AssignOutboundCall"
        /\ task'[t].runs = task[t].runs + 1
        /\ Find(client_conns_, calls[task[t].call].conn_id) = {})
         => LET k == task[t].call
                made == (Len(conns) + 1)..Len(conns')
            IN \/ /\ calls'[k].status \in FindOrStartErrors
                  /\ calls'[k].conn = 0
                  /\ client_conns_' = client_conns_
                  /\ \A c \in 1..Len(conns') : k \notin conns'[c].calls
                  /\ \A c \in made : /\ ~conns'[c].fd_open
                                     /\ ~conns'[c].negotiating
                                     /\ ~conns'[c].registered
                  /\ calls'[k].status \in {MessengerShuttingDown, NegotiationThreadError}
                       <=> made # {}
               \/ /\ calls'[k].status = NoStatus
                  /\ made = {Len(conns')}
                  /\ calls'[k].conn = Len(conns')
                  /\ client_conns_' = client_conns_ \cup {<<calls[k].conn_id, Len(conns')>>}
                  /\ conns'[Len(conns')].negotiating
                  /\ k \in conns'[Len(conns')].calls
    ]_vars

\* The executor refused the negotiation of a new Connection: the call failed as
\* "Client RPC Messenger shutting down", the Connection was dropped, and
\* client_conns_ has no entry for the ConnectionId.
C21_Witness ==
  \E k \in 1..Len(calls) :
    /\ calls[k].status = MessengerShuttingDown
    /\ calls[k].conn = 0
    /\ Find(client_conns_, calls[k].conn_id) = {}
    /\ \E c \in ClientConns : /\ conns[c].conn_id = calls[k].conn_id
                              /\ ~conns[c].registered
                              /\ ~conns[c].fd_open

\* ------------------------------------------------------------------- C22
\* The steps that are the Run of the negotiation-completed task of Connection c.
CompletionRun(t, c) ==
  /\ task[t].kind = "NegotiationCompleted"
  /\ task[t].conn = c
  /\ task'[t].runs = task[t].runs + 1

\* C22: a Connection becomes Ready (negotiation-complete and registered with
\* the readiness watchers) only in the Run of its negotiation-completed task,
\* and only when the status is OK, the service name is not empty and
\* SetNonBlocking succeeded.  In each of the three failure cases the Run
\* destroys the Connection with the status of that case: it is shut down with
\* it, unlinked from its table, and neither marked complete nor registered.
C22_ReadyOnlyThroughCompletion ==
  [][\A c \in 1..Len(conns) :
       /\ (\/ conns'[c].negotiation_complete # conns[c].negotiation_complete
           \/ conns'[c].epoll_registered # conns[c].epoll_registered)
            => \E t \in TaskIds : CompletionRun(t, c)
       /\ \A t \in TaskIds :
            CompletionRun(t, c)
              => LET failure ==
                       IF task[t].status # StatusOK THEN task[t].status
                       ELSE IF task'[t].service_name_empty THEN IllegalStateServiceName
                       ELSE IF task'[t].set_nonblocking # StatusOK
                            THEN task'[t].set_nonblocking
                       ELSE StatusOK
                 IN IF failure = StatusOK
                    THEN /\ conns'[c].negotiation_complete
                         /\ conns'[c].epoll_registered
                         /\ conns'[c].shutdown_status = conns[c].shutdown_status
                         /\ client_conns_' = client_conns_
                         /\ server_conns_' = server_conns_
                    ELSE /\ conns'[c].shutdown_status = failure
                         /\ ~conns'[c].fd_open
                         /\ conns'[c].negotiation_complete = conns[c].negotiation_complete
                         /\ conns'[c].epoll_registered = conns[c].epoll_registered
                         /\ c \notin {p[2] : p \in client_conns_'}
                         /\ c \notin Elems(server_conns_')
    ]_vars

\* A negotiation-completed task with OK status, a service name and a
\* successful SetNonBlocking was Run, and its Connection is Ready in its table.
C22_Witness ==
  \E t \in TaskIds :
    /\ task[t].kind = "NegotiationCompleted" /\ task[t].runs = 1
    /\ task[t].status = StatusOK
    /\ ~task[t].service_name_empty
    /\ task[t].set_nonblocking = StatusOK
    /\ conns[task[t].conn].negotiation_complete
    /\ conns[task[t].conn].epoll_registered
    /\ conns[task[t].conn].fd_open
    /\ task[t].conn \in InTables

\* ------------------------------------------------------------------- C23
\* C23: ShutdownInternal calls Shutdown with "reactor is shutting down" on every
\* Connection that is in client_conns_ or server_conns_ when it starts, failing
\* the calls in flight on it with that status; it touches no other Connection,
\* and it leaves both tables empty.  After it the loop has exited: the tables
\* stay empty, no Connection is registered or made Ready any more, and an
\* inbound Connection whose fd is still open is one whose registration task is
\* still to be Aborted, so that each peer sees its connection closed.
C23_ShutdownInternalClosesAll ==
  /\ [][/\ (loop_pc = "ah_shutdown" /\ loop_pc' # loop_pc)
              => /\ client_conns_' = {} /\ server_conns_' = <<>>
                 /\ \A c \in 1..Len(conns) :
                      IF c \in InTables
                      THEN /\ conns'[c].shutdown_status = ShutdownError
                           /\ ~conns'[c].fd_open
                           /\ \A k \in conns[c].calls :
                                calls[k].status = NoStatus
                                  => calls'[k].status = ShutdownError
                      ELSE conns'[c] = conns[c]
        /\ loop_pc = "exited"
              => /\ client_conns_' = {} /\ server_conns_' = <<>>
                 /\ \A c \in 1..Len(conns) :
                      /\ conns'[c].registered = conns[c].registered
                      /\ conns'[c].epoll_registered = conns[c].epoll_registered
                      /\ conns'[c].negotiation_complete = conns[c].negotiation_complete
                      /\ (conns'[c].fd_open => conns[c].fd_open)
       ]_vars
  /\ [](loop_pc = "exited"
          => /\ InTables = {}
             /\ \A c \in 1..Len(conns) :
                  /\ (conns[c].registered => ~conns[c].fd_open)
                  /\ (conns[c].direction = "SERVER" /\ conns[c].fd_open)
                       => \E t \in RegisterTasks :
                            task[t].conn = c /\ Finalisations(t) = 0)

\* The loop has exited after ShutdownInternal shut down an outbound Connection
\* with a call in flight and an inbound Connection.
C23_Witness ==
  /\ loop_pc = "exited"
  /\ InTables = {}
  /\ \E c1, c2 \in 1..Len(conns), k \in 1..Len(calls) :
       /\ conns[c1].direction = "CLIENT" /\ conns[c1].registered
       /\ conns[c1].shutdown_status = ShutdownError /\ ~conns[c1].fd_open
       /\ calls[k].conn = c1 /\ calls[k].status = ShutdownError
       /\ conns[c2].direction = "SERVER" /\ conns[c2].registered
       /\ conns[c2].shutdown_status = ShutdownError /\ ~conns[c2].fd_open

\* ------------------------------------------------------------------- C24
\* conn_list_t with the members of gone taken out, the others in their order.
RECURSIVE Without(_, _)
Without(list, gone) ==
  IF list = <<>> THEN <<>>
  ELSE IF Head(list) \in gone THEN Without(Tail(list), gone)
  ELSE <<Head(list)>> \o Without(Tail(list), gone)

\* C24: one walk of ScanIdleConnections takes out of server_conns_ exactly the
\* Connections that answered idle and whose last activity is more than the
\* keepalive before cur_time_, each shut down with the timed-out network error;
\* the other entries stay, in the order they had, whether or not the ones
\* removed were adjacent; client_conns_, the calls and every other Connection
\* are as before.
C24_ScanRemovesExactlyExpired ==
  [][(loop_pc = "th_scan" /\ loop_pc' = "idle")
       => LET expired == {c \in Elems(server_conns_) :
                            /\ c \in scan_idle'
                            /\ cur_time_ - conns[c].last_activity > Keepalive}
          IN /\ server_conns_' = Without(server_conns_, expired)
             /\ client_conns_' = client_conns_
             /\ calls' = calls
             /\ Len(conns') = Len(conns)
             /\ \A c \in 1..Len(conns) :
                  IF c \in expired
                  THEN conns'[c] = [conns[c] EXCEPT !.fd_open = FALSE,
                                                    !.shutdown_status = TimedOutError]
                  ELSE conns'[c] = conns[c]
    ]_vars

\* One walk timed out two adjacent Connections of three and kept the third,
\* with the outbound Connection, older than all, still in client_conns_.
C24_Witness ==
  /\ loop_pc = "idle"
  /\ ticks = 1
  /\ Len(server_conns_) = 1
  /\ \E i \in 1..(Len(conns) - 1) :
       /\ conns[i].shutdown_status = TimedOutError
       /\ conns[i + 1].shutdown_status = TimedOutError
       /\ server_conns_[1] \notin {i, i + 1}
  /\ \E p \in client_conns_ : conns[p[2]].fd_open /\ conns[p[2]].last_activity = 0

\* ------------------------------------------------------------------- C25
\* The threads that are at pending_tasks_: a foreign thread between the test of
\* closing_ and its push_back, the loop thread between the test and its swap,
\* and a thread in the drain loop of Reactor::Shutdown.
QueueAccessors ==
  {th \in Threads : pc[th] \in {"sched_push", "sd_loop", "sd_abort"}}
    \cup (IF loop_pc = "ah_drain_swap" THEN {LoopThread} ELSE {})

\* C25: at most one thread is at pending_tasks_ at any time.  The drain loop of
\* Shutdown, which holds no lock, runs in the one thread that set closing_ and
\* never while a push_back of ScheduleReactorTask, the swap of DrainTaskQueue or
\* the drain loop of another Shutdown call is under way.
C25_NoConcurrentQueueAccess ==
  /\ Cardinality(QueueAccessors) <= 1
  /\ \A th \in Threads :
       pc[th] \in {"sd_loop", "sd_abort"}
         => /\ closer = {th}
            /\ closing_
            /\ th \notin lock_

\* The drain loop of one Shutdown call is about to take a task off the queue
\* while a second Shutdown call has come and gone and the loop thread, which
\* saw closing_ unset, is about to call DrainTaskQueue.
C25_Witness ==
  /\ sd_calls = 2
  /\ pending_tasks_ # <<>>
  /\ loop_pc = "ah_drain"
  /\ \E th1, th2 \in Threads :
       /\ th1 # th2
       /\ pc[th1] = "sd_loop"
       /\ pc[th2] = "idle"

====
